---- MODULE Spec2Model ----
(***************************************************************************)
(* Model of the AI text-generation gateway of tp-edit-nest:                *)
(*   - AiService.generateText      (synchronous path, error classifier)    *)
(*   - AiService.generateTextStream (RxJS Observable stream executor)      *)
(*   - AiController.generate       (SSE responder writing to the response) *)
(*   - AiService.validateAndNormalizeParams (parameter normalizer)         *)
(*   - GenerateTextDto behind the global ValidationPipe                    *)
(* Sources: src/src/modules/ai/ai.controller.ts,                           *)
(*   src/src/modules/ai/models.enum.ts,                                    *)
(*   src/src/modules/ai/dto/generate-text.dto.ts, src/src/main.ts          *)
(***************************************************************************)
EXTENDS Integers, Sequences, FiniteSets, TLC

VARIABLES
    st,     \* st[r]: state of streaming request r (response, subscriber, executor)
    sync,   \* state of one synchronous generateText call
    env     \* process.env: the set of credential keys that are configured

vars == <<st, sync, env>>

(***************************************************************************)
(* Bounds of the model.                                                    *)
(***************************************************************************)
\* largest number of chunks one upstream text stream yields
MaxChunks == 3
\* largest integer part N of a "Please retry in N...s" phrase
MaxRetryInt == 2

(***************************************************************************)
(* Providers (ProviderId, AiService.providers).                            *)
(***************************************************************************)
Providers == {"openai", "deepseek", "gemini"}

ProviderLabel(p) ==
    CASE p = "openai" -> "OpenAI"
      [] p = "deepseek" -> "DeepSeek"
      [] OTHER -> "Google Gemini"

\* the environment variable the create factory of provider p reads
\* (process.env.<key> in AiService.providers[p].create)
CredentialKey(p) ==
    CASE p = "openai" -> "OPENAI_API_KEY"
      [] p = "deepseek" -> "DEEPSEEK_API_KEY"
      [] OTHER -> "GOOGLE_GENERATIVE_AI_API_KEY"

\* the credential keys of the three providers
CredentialKeys == {CredentialKey(p) : p \in Providers}

\* a lookup that finds a key only when every provider's key is configured
HasKey_AllConfigured(e, p) == e = CredentialKeys

\* const apiKey = process.env.<key>; apiKey is truthy
HasKey(e, p) == CredentialKey(p) \in e

\* a conditional that names the OpenAI key whatever the provider
EnvVarName_OpenAIOnly(p) == "OPENAI_API_KEY"

\* the nested conditional that picks the environment variable named in the
\* 403 and 401 messages
EnvVarName(p) ==
    IF p = "deepseek" THEN "DEEPSEEK_API_KEY"
    ELSE IF p = "gemini" THEN "GOOGLE_GENERATIVE_AI_API_KEY"
    ELSE "OPENAI_API_KEY"

(***************************************************************************)
(* Message text.  A message is a record                                    *)
(*   words : the text as a sequence of words                               *)
(*   retry : the characters captured by /Please retry in ([\d.]+)s/i,      *)
(*           <<>> when the text holds no such phrase                       *)
(* The empty message stands for both '' and an absent (undefined) message: *)
(* the code only ever uses a message through ?., || and includes, which    *)
(* treat the two alike.                                                    *)
(***************************************************************************)
Msg(w, r) == [words |-> w, retry |-> r]

EmptyMsg == Msg(<<>>, <<>>)

\* JavaScript truthiness of a string
Truthy(m) == m.words # <<>> \/ m.retry # <<>>

\* String.prototype.includes: phrase occurs as a contiguous run of the text
Includes(m, phrase) ==
    \E i \in 0..(Len(m.words) - Len(phrase)) :
        SubSeq(m.words, i + 1, i + Len(phrase)) = phrase

(***************************************************************************)
(* parseFloat and Math.ceil on the captured characters.                    *)
(***************************************************************************)
DigitChars == {"0", "1", "2", "3", "4", "5", "6", "7", "8", "9"}

DigitVal(c) ==
    CASE c = "0" -> 0 [] c = "1" -> 1 [] c = "2" -> 2 [] c = "3" -> 3
      [] c = "4" -> 4 [] c = "5" -> 5 [] c = "6" -> 6 [] c = "7" -> 7
      [] c = "8" -> 8 [] OTHER -> 9

DigitOf(n) ==
    CASE n = 0 -> "0" [] n = 1 -> "1" [] n = 2 -> "2" [] n = 3 -> "3"
      [] n = 4 -> "4" [] n = 5 -> "5" [] n = 6 -> "6" [] n = 7 -> "7"
      [] n = 8 -> "8" [] OTHER -> "9"

\* decimal digits of a natural number
RECURSIVE Digits(_)
Digits(n) == IF n < 10 THEN <<DigitOf(n)>> ELSE Append(Digits(n \div 10), DigitOf(n % 10))

\* number of digit characters of s starting at position i
RECURSIVE DigitRun(_, _)
DigitRun(s, i) ==
    IF i <= Len(s) /\ s[i] \in DigitChars THEN 1 + DigitRun(s, i + 1) ELSE 0

\* value of a run of digits
RECURSIVE DigitsVal(_)
DigitsVal(s) ==
    IF s = <<>> THEN 0
    ELSE 10 * DigitsVal(SubSeq(s, 1, Len(s) - 1)) + DigitVal(s[Len(s)])

NaN == [kind |-> "nan", int |-> 0, frac |-> <<>>]

Null == [kind |-> "null", int |-> 0, frac |-> <<>>]

\* parseFloat: the longest prefix digits [ "." digits ] with at least one digit
ParseFloat(s) ==
    LET il == DigitRun(s, 1)
        dot == il < Len(s) /\ s[il + 1] = "."
        fl == IF dot THEN DigitRun(s, il + 2) ELSE 0
    IN  IF il + fl = 0 THEN NaN
        ELSE [kind |-> "num",
              int |-> DigitsVal(SubSeq(s, 1, il)),
              frac |-> SubSeq(s, il + 2, il + 1 + fl)]

\* Math.ceil of a parsed number (NaN stays NaN)
MathCeil(f) ==
    IF f.kind # "num" THEN f
    ELSE [kind |-> "num",
          int |-> f.int + (IF \E i \in 1..Len(f.frac) : f.frac[i] # "0" THEN 1 ELSE 0),
          frac |-> <<>>]

\* JavaScript truthiness of a number | null
TruthyNum(f) == f.kind = "num" /\ (f.int # 0 \/ \E i \in 1..Len(f.frac) : f.frac[i] # "0")

(***************************************************************************)
(* Raw errors raised by the upstream SDK call.  Every one is an Error      *)
(* instance; its fields are the ones the catch blocks read:                *)
(*   parameter, status, statusCode, message,                               *)
(*   data.error.status (dataStatus), data.error.message (dataMessage).     *)
(* A status of 0 stands for an absent field.                               *)
(***************************************************************************)
RawError(param, status, statusCode, message, dataStatus, dataMessage) ==
    [parameter |-> param, status |-> status, statusCode |-> statusCode,
     message |-> message, dataStatus |-> dataStatus, dataMessage |-> dataMessage]

NoError == RawError(FALSE, 0, 0, EmptyMsg, "", EmptyMsg)

\* texts of the top-level message the inputs are drawn from
MessageWords ==
    { <<>>,
      <<"Invalid", "argument">>,
      <<"temperature", "must", "be", "positive">>,
      <<"Insufficient", "Balance">>,
      <<"You", "exceeded", "your", "current", "quota", "for", "gemini-3-pro">>,
      <<"Rate", "limit", "reached">>,
      <<"API", "key", "was", "reported", "as", "leaked">>,
      <<"Unauthorized">>,
      <<"Invalid", "API", "key">>,
      <<"Invalid", "API", "key", "reported", "as", "leaked">>,
      <<"invalid", "api", "key">>,
      <<"connection", "reset">> }

\* nested provider payloads data.error = {status, message}; the first is no payload
DataPayloads ==
    { [status |-> "", words |-> <<>>],
      [status |-> "RESOURCE_EXHAUSTED", words |-> <<"Resource", "exhausted">>],
      [status |-> "PERMISSION_DENIED", words |-> <<"Permission", "denied">>],
      [status |-> "PERMISSION_DENIED", words |-> <<"Key", "leaked">>],
      [status |-> "", words |-> <<"Request", "failed">>] }

\* HTTP codes carried in error.status or in error.statusCode
HttpCodes == {401, 402, 403, 429}

HttpFields ==
    { [status |-> 0, statusCode |-> 0] }
    \cup { [status |-> c, statusCode |-> 0] : c \in HttpCodes }
    \cup { [status |-> 0, statusCode |-> c] : c \in HttpCodes }

\* what ([\d.]+) captures in "Please retry in N...s": <<>> is no such phrase
RetryCaptures ==
    { <<>>, <<".">>, <<".", "5">> }
    \cup { Digits(n) \o f : n \in 0..MaxRetryInt,
                            f \in { <<>>, <<".">>, <<".", "5">> } }

\* where the retry phrase stands: in the top-level message, or in the message
\* of the payload when there is one
RetryPlaces(d) == IF d.words = <<>> THEN {"message"} ELSE {"message", "data"}

RawErrors ==
    UNION { { RawError(param, h.status, h.statusCode,
                       Msg(w, IF place = "message" THEN cap ELSE <<>>),
                       d.status,
                       Msg(d.words, IF place = "data" THEN cap ELSE <<>>)) :
                param \in BOOLEAN, h \in HttpFields, w \in MessageWords,
                cap \in RetryCaptures, place \in RetryPlaces(d) } :
            d \in DataPayloads }

(***************************************************************************)
(* Classified errors: the exception the catch block throws.                *)
(*   exception : the NestJS exception class                                *)
(*   category  : the branch of the chain that threw                        *)
(*   text      : the message, kept structured:                             *)
(*       tmpl  the template of the branch                                  *)
(*       raw   the upstream text interpolated into it                      *)
(*       envVar, site, label  the key / URL / provider label it names      *)
(*       delay the retry delay it shows (shown = FALSE: none)              *)
(*       note  the gemini-3-pro preview note                               *)
(***************************************************************************)
Text(tmpl, raw, envVar, site, label, delay, note) ==
    [tmpl |-> tmpl, raw |-> raw, envVar |-> envVar, site |-> site,
     label |-> label, delay |-> delay, note |-> note]

NoDelay == [shown |-> FALSE, secs |-> 0]

NoText == Text("none", EmptyMsg, "none", "none", "none", NoDelay, FALSE)

Classified(exception, category, text) ==
    [exception |-> exception, category |-> category, text |-> text]

NoResult == Classified("none", "none", NoText)

\* Error.prototype.toString of an Error with an empty message is its name
ErrorToString(e) ==
    IF Truthy(e.message) THEN Msg(<<"Error:">> \o e.message.words, e.message.retry)
    ELSE Msg(<<"Error">>, <<>>)

\* error?.message || error?.toString() || '...'
MessageOrToString(e) == IF Truthy(e.message) THEN e.message ELSE ErrorToString(e)

\* error?.data?.error?.message || error?.message || ''
ErrorMessage(e) == IF Truthy(e.dataMessage) THEN e.dataMessage ELSE e.message

IsParameterError(e) ==
    \/ e.parameter
    \/ Includes(e.message, <<"Invalid", "argument">>)
    \/ Includes(e.message, <<"must", "be">>)

IsBalanceError(e) ==
    \/ e.status = 402
    \/ e.statusCode = 402
    \/ Includes(e.message, <<"Insufficient", "Balance">>)
    \/ Includes(e.message, <<"yu'e buzu">>)

IsRateLimitError(e) ==
    \/ e.status = 429
    \/ e.statusCode = 429
    \/ e.dataStatus = "RESOURCE_EXHAUSTED"
    \/ Includes(e.message, <<"quota">>)
    \/ Includes(e.message, <<"rate", "limit">>)
    \/ Includes(e.message, <<"Rate", "limit">>)
    \/ Includes(e.message, <<"exceeded", "your", "current", "quota">>)

IsForbiddenError(e) ==
    \/ e.status = 403
    \/ e.statusCode = 403
    \/ e.dataStatus = "PERMISSION_DENIED"
    \/ Includes(e.message, <<"leaked">>)
    \/ Includes(e.message, <<"reported", "as", "leaked">>)

IsUnauthorizedError(e) ==
    \/ e.status = 401
    \/ e.statusCode = 401
    \/ Includes(e.message, <<"Unauthorized">>)
    \/ Includes(e.message, <<"Invalid">>)
    \/ Includes(e.message, <<"API", "key">>)

\* retryDelayMatch ? Math.ceil(parseFloat(retryDelayMatch[1])) : null
RetryDelay(e) ==
    LET cap == ErrorMessage(e).retry
    IN  IF cap = <<>> THEN Null ELSE MathCeil(ParseFloat(cap))

\* if (retryDelay) message += `... ${retryDelay} ...`
ShownDelay(d) == IF TruthyNum(d) THEN [shown |-> TRUE, secs |-> d.int] ELSE NoDelay

ParameterBranch(p, e) ==
    Classified("BadRequestException", "BadRequest",
               Text("param", MessageOrToString(e), "none", "none", "none", NoDelay, FALSE))

BalanceBranch(p, e) ==
    Classified("BadRequestException", "InsufficientBalance",
               Text("balance", EmptyMsg, "none", "platform.deepseek.com", "none",
                    NoDelay, FALSE))

RateLimitBranch(p, e) ==
    Classified("BadRequestException", "RateLimited",
               Text("ratelimit", EmptyMsg, "none",
                    IF p = "gemini" THEN "ai.dev/usage"
                    ELSE IF p = "deepseek" THEN "platform.deepseek.com" ELSE "none",
                    "none",
                    ShownDelay(RetryDelay(e)),
                    p = "gemini" /\ Includes(ErrorMessage(e), <<"gemini-3-pro">>)))

ForbiddenBranch(p, e) ==
    IF Includes(ErrorMessage(e), <<"leaked">>)
    THEN Classified("BadRequestException", "Forbidden-Leaked",
                    Text("leaked", EmptyMsg, EnvVarName(p), "aistudio.google.com",
                         "none", NoDelay, FALSE))
    ELSE Classified("BadRequestException", "Forbidden-Other",
                    Text("forbidden", EmptyMsg, EnvVarName(p), "none", "none",
                         NoDelay, FALSE))

UnauthorizedBranch(p, e) ==
    Classified("BadRequestException", "Unauthorized",
               Text("unauthorized", EmptyMsg, EnvVarName(p), "none", "none",
                    NoDelay, FALSE))

\* a fallback that rethrows the raw error as it came
InternalBranch_Rethrow(p, e) ==
    Classified("Error", "none",
               Text("raw", MessageOrToString(e), "none", "none", "none", NoDelay, FALSE))

InternalBranch(p, e) ==
    Classified("InternalServerErrorException", "Internal",
               Text("internal", MessageOrToString(e), "none", "none",
                    ProviderLabel(p), NoDelay, FALSE))

\* the chain with the 401 check moved before the 403 check
ClassifyError_UnauthorizedFirst(p, e) ==
    IF IsParameterError(e) THEN ParameterBranch(p, e)
    ELSE IF IsBalanceError(e) THEN BalanceBranch(p, e)
    ELSE IF IsRateLimitError(e) THEN RateLimitBranch(p, e)
    ELSE IF IsUnauthorizedError(e) THEN UnauthorizedBranch(p, e)
    ELSE IF IsForbiddenError(e) THEN ForbiddenBranch(p, e)
    ELSE InternalBranch(p, e)

\* the catch block of generateText: the chain of checks, first match throws
ClassifyError(p, e) ==
    IF IsParameterError(e) THEN ParameterBranch(p, e)
    ELSE IF IsBalanceError(e) THEN BalanceBranch(p, e)
    ELSE IF IsRateLimitError(e) THEN RateLimitBranch(p, e)
    ELSE IF IsForbiddenError(e) THEN ForbiddenBranch(p, e)
    ELSE IF IsUnauthorizedError(e) THEN UnauthorizedBranch(p, e)
    ELSE InternalBranch(p, e)

(***************************************************************************)
(* Request payloads (GenerateTextDto).                                     *)
(* A string field is a record                                              *)
(*   def  : FALSE for undefined / null                                     *)
(*   toks : the text as a sequence of tokens; the token " " is a run of    *)
(*          whitespace, every other token a run of non-blank characters    *)
(* A number field is a record                                              *)
(*   kind : "undefined" (undefined / null) | "num" | "nan" | "inf"         *)
(*   neg  : the sign                                                       *)
(*   int  : the integer part of the magnitude                              *)
(*   frac : the decimal places of the magnitude, as digit characters       *)
(***************************************************************************)
Str(toks) == [def |-> TRUE, toks |-> toks]

StrUndefined == [def |-> FALSE, toks |-> <<>>]

\* String.prototype.trimStart / trimEnd / trim
RECURSIVE TrimStart(_)
TrimStart(t) == IF t # <<>> /\ Head(t) = " " THEN TrimStart(Tail(t)) ELSE t

RECURSIVE TrimEnd(_)
TrimEnd(t) ==
    IF t # <<>> /\ t[Len(t)] = " " THEN TrimEnd(SubSeq(t, 1, Len(t) - 1)) ELSE t

Trim(s) == Str(TrimEnd(TrimStart(s.toks)))

\* !s : undefined, null and '' are falsy
Falsy(s) == ~s.def \/ s.toks = <<>>

\* !s || !s.trim()
Blank(s) == Falsy(s) \/ Falsy(Trim(s))

JsNum(neg, int, frac) == [kind |-> "num", neg |-> neg, int |-> int, frac |-> frac]

JsInt(n) == JsNum(FALSE, n, <<>>)

JsUndefined == [kind |-> "undefined", neg |-> FALSE, int |-> 0, frac |-> <<>>]

JsNaN == [kind |-> "nan", neg |-> FALSE, int |-> 0, frac |-> <<>>]

JsInfinity(neg) == [kind |-> "inf", neg |-> neg, int |-> 0, frac |-> <<>>]

\* the number has a non-zero fractional part
HasFraction(n) == \E i \in 1..Len(n.frac) : n.frac[i] # "0"

\* n < 0
Negative(n) == n.kind \in {"num", "inf"} /\ n.neg /\ (n.kind = "inf" \/ n.int # 0 \/ HasFraction(n))

\* isNaN(n) || !isFinite(n)
NotFinite(n) == n.kind \in {"nan", "inf"}

\* a floor of the magnitude that always adds one
FloorAbs_PlusOne(n) == n.int + 1

\* Math.floor(Math.abs(n)) of a finite number
FloorAbs(n) == n.int

\* n >= k and n <= k for an integer k >= 0 (false for NaN)
Geq(n, k) ==
    CASE n.kind = "num" -> ~Negative(n) /\ n.int >= k
      [] n.kind = "inf" -> ~n.neg
      [] OTHER -> FALSE

Leq(n, k) ==
    CASE n.kind = "num" -> Negative(n) \/ n.int < k \/ (n.int = k /\ ~HasFraction(n))
      [] n.kind = "inf" -> n.neg
      [] OTHER -> FALSE

\* Number.isInteger(n)
IsInteger(n) == n.kind = "num" /\ ~HasFraction(n)

\* Math.max(0, Math.min(2, n)) of a finite number
Clamp(n) ==
    IF ~Geq(n, 0) THEN JsInt(0)
    ELSE IF ~Leq(n, 2) THEN JsInt(2)
    ELSE n

Payload(provider, model, prompt, system, temperature, maxTokens) ==
    [provider |-> provider, model |-> model, prompt |-> prompt, system |-> system,
     temperature |-> temperature, maxTokens |-> maxTokens]

(***************************************************************************)
(* Provider registry: models.enum.ts and the providers object.             *)
(***************************************************************************)
OpenAIModel == <<"gpt-4o", "gpt-4o-mini", "gpt-4", "gpt-3.5-turbo">>

DeepSeekModel == <<"deepseek-v2-chat", "deepseek-chat", "deepseek-coder">>

GeminiModel == <<"gemini-3-flash-preview", "gemini-2.5-pro", "gemini-2.5-flash">>

\* the models the README lists as supported under each provider
DocumentedModels(provider) ==
    CASE provider = "openai" -> {"gpt-4o", "gpt-4o-mini", "gpt-3.5-turbo"}
      [] provider = "deepseek" -> {"deepseek-chat", "deepseek-coder"}
      [] provider = "gemini" -> {"gemini-3-pro", "gemini-3-flash-preview"}
      [] OTHER -> {}

\* the switch of getModelsByProvider, default: []
getModelsByProvider(provider) ==
    CASE provider = "openai" -> OpenAIModel
      [] provider = "deepseek" -> DeepSeekModel
      [] provider = "gemini" -> GeminiModel
      [] OTHER -> <<>>

\* a list of available models that is OpenAI's whatever the provider
AvailableModels_OpenAIOnly(provider) == OpenAIModel

\* const availableModels = getModelsByProvider(providerId), joined into the
\* message of the model rule
AvailableModels(provider) == getModelsByProvider(provider)

\* validModels.includes(model): the model string is exactly one of the names
validateModel(provider, model) ==
    \E i \in 1..Len(getModelsByProvider(provider)) :
        model.toks = <<getModelsByProvider(provider)[i]>>

\* property names every JavaScript object inherits from Object.prototype
ObjectPrototypeKeys ==
    {"constructor", "__defineGetter__", "__defineSetter__", "hasOwnProperty",
     "__lookupGetter__", "__lookupSetter__", "isPrototypeOf",
     "propertyIsEnumerable", "toString", "valueOf", "__proto__", "toLocaleString"}

\* this.providers[providerId] is truthy: an own entry of the object literal,
\* or a member inherited from Object.prototype
ProviderEntryFound(provider) ==
    provider \in Providers \/ provider \in ObjectPrototypeKeys

(***************************************************************************)
(* Parameter normalizer: AiService.validateAndNormalizeParams.             *)
(* A BadRequest of the normalizer is kept structured: tmpl names the       *)
(* message template, model / provider / models the values interpolated     *)
(* into it (models: the list joined after "可用模型:"), constraints the    *)
(* violated class-validator constraints (ValidationPipe only).             *)
(***************************************************************************)
BadRequest(tmpl, provider, model, models) ==
    [exception |-> "BadRequestException", category |-> "BadRequest",
     text |-> [tmpl |-> tmpl, provider |-> provider, model |-> model,
               models |-> models, constraints |-> {}]]

PlainBadRequest(tmpl) == BadRequest(tmpl, "", StrUndefined, <<>>)

Canonical(providerId, model, prompt, system, temperature, maxTokens) ==
    [providerId |-> providerId, model |-> model, prompt |-> prompt,
     system |-> system, temperature |-> temperature, maxTokens |-> maxTokens]

NoCanonical ==
    Canonical("", StrUndefined, StrUndefined, StrUndefined, JsUndefined, JsUndefined)

Accepted(req) == [ok |-> TRUE, req |-> req, error |-> NoResult]

Rejected(error) == [ok |-> FALSE, req |-> NoCanonical, error |-> error]

\* the upper limit of maxTokens
MaxTokensLimit == 1000000

\* the maxTokens block: undefined when absent, else Math.floor(Math.abs(v))
NormalizeMaxTokens(v) == IF v.kind = "undefined" THEN JsUndefined ELSE JsInt(FloorAbs(v))

\* the temperature block: undefined when absent, else the clamped value
NormalizeTemperature(v) == IF v.kind = "undefined" THEN JsUndefined ELSE Clamp(v)

\* payload.prompt?.trim() || ''
NormalizePrompt(s) == IF Falsy(s) \/ Falsy(Trim(s)) THEN Str(<<>>) ELSE Trim(s)

\* payload.system?.trim()
NormalizeSystem(s) == IF s.def THEN Trim(s) ELSE StrUndefined

validateAndNormalizeParams(payload) ==
    IF ~ProviderEntryFound(payload.provider)
    THEN Rejected(BadRequest("unsupported-provider", payload.provider, StrUndefined, <<>>))
    ELSE IF Blank(payload.model)
    THEN Rejected(PlainBadRequest("model-empty"))
    ELSE IF ~validateModel(payload.provider, payload.model)
    THEN Rejected(BadRequest("model-not-owned", payload.provider, payload.model,
                             AvailableModels(payload.provider)))
    ELSE IF Blank(payload.prompt) /\ Blank(payload.system)
    THEN Rejected(PlainBadRequest("prompt-system-empty"))
    ELSE IF payload.maxTokens.kind # "undefined" /\ NotFinite(payload.maxTokens)
    THEN Rejected(PlainBadRequest("maxTokens-not-a-number"))
    ELSE IF payload.maxTokens.kind # "undefined" /\ FloorAbs(payload.maxTokens) < 1
    THEN Rejected(PlainBadRequest("maxTokens-below-1"))
    ELSE IF payload.maxTokens.kind # "undefined"
            /\ FloorAbs(payload.maxTokens) > MaxTokensLimit
    THEN Rejected(PlainBadRequest("maxTokens-above-limit"))
    ELSE IF payload.temperature.kind # "undefined" /\ NotFinite(payload.temperature)
    THEN Rejected(PlainBadRequest("temperature-not-a-number"))
    ELSE Accepted(Canonical(payload.provider, Trim(payload.model),
                            NormalizePrompt(payload.prompt),
                            NormalizeSystem(payload.system),
                            NormalizeTemperature(payload.temperature),
                            NormalizeMaxTokens(payload.maxTokens)))

(***************************************************************************)
(* Request validation layer: the global ValidationPipe (main.ts) applied   *)
(* to GenerateTextDto.  DtoErrors is the set of violated constraints,      *)
(* named field.constraint.  @IsOptional skips a field that is undefined    *)
(* or null.                                                                *)
(***************************************************************************)
ProviderErrors(v) ==
    (IF v = "" THEN {"provider.isNotEmpty"} ELSE {})
        \cup (IF v \notin Providers THEN {"provider.isIn"} ELSE {})

\* @IsString @IsNotEmpty, for model and prompt
RequiredStringErrors(v, isString, isNotEmpty) ==
    (IF ~v.def THEN {isString} ELSE {})
        \cup (IF Falsy(v) THEN {isNotEmpty} ELSE {})

\* @IsString @IsOptional
SystemErrors(v) == {}

\* the largest number of decimal places @IsNumber allows for temperature
MaxDecimalPlaces == 2

\* @IsNumber({ maxDecimalPlaces: 2 }) @IsOptional @Min(0) @Max(2)
TemperatureErrors(v) ==
    IF v.kind = "undefined" THEN {}
    ELSE (IF NotFinite(v) \/ Len(v.frac) > MaxDecimalPlaces
          THEN {"temperature.isNumber"} ELSE {})
            \cup (IF ~Geq(v, 0) THEN {"temperature.min"} ELSE {})
            \cup (IF ~Leq(v, 2) THEN {"temperature.max"} ELSE {})

\* @IsNumber() @IsOptional @IsInt @Min(1) @Max(1000000)
MaxTokensErrors(v) ==
    IF v.kind = "undefined" THEN {}
    ELSE (IF NotFinite(v) THEN {"maxTokens.isNumber"} ELSE {})
            \cup (IF ~IsInteger(v) THEN {"maxTokens.isInt"} ELSE {})
            \cup (IF ~Geq(v, 1) THEN {"maxTokens.min"} ELSE {})
            \cup (IF ~Leq(v, MaxTokensLimit) THEN {"maxTokens.max"} ELSE {})

DtoErrors(body) ==
    ProviderErrors(body.provider)
        \cup RequiredStringErrors(body.model, "model.isString", "model.isNotEmpty")
        \cup RequiredStringErrors(body.prompt, "prompt.isString", "prompt.isNotEmpty")
        \cup SystemErrors(body.system)
        \cup TemperatureErrors(body.temperature)
        \cup MaxTokensErrors(body.maxTokens)

\* the BadRequestException the pipe throws, carrying every violated constraint
PipeRejection(errors) ==
    [exception |-> "BadRequestException", category |-> "BadRequest",
     text |-> [tmpl |-> "validation-pipe", provider |-> "", model |-> StrUndefined,
               models |-> <<>>, constraints |-> errors]]

(***************************************************************************)
(* Synchronous path: one call of generate / AiService.generateText.        *)
(*   pc      "idle" (not started) | "calling" (await generateText pending) *)
(*           | "returned" (sync.ret returned) | "failed" (sync.result      *)
(*           thrown)                                                       *)
(*   entry   "http": the body passes the ValidationPipe before the         *)
(*           controller calls the service; "service": generateText is      *)
(*           called directly                                               *)
(*   payload the request body                                              *)
(*   prov    the provider named by the payload                             *)
(*   credRead  the create factory has run and read process.env             *)
(*   params  the requestParams handed to the upstream generateText         *)
(*   raises, err  the upstream call rejects, with the raw error err        *)
(*   req     the canonical request                                         *)
(*   creates, calls  SDK providers created, upstream generateText calls    *)
(***************************************************************************)
ValidPayload(p) ==
    Payload(p, Str(<<getModelsByProvider(p)[1]>>), Str(<<"hi">>), StrUndefined,
            JsUndefined, JsUndefined)

\* a valid request with a system prompt, a temperature and a token limit
LimitedPayload(p) ==
    [ValidPayload(p) EXCEPT !.system = Str(<<"sys">>), !.temperature = JsInt(1),
                            !.maxTokens = JsInt(5)]

\* a request that passes the DTO and fails the model rule of the normalizer
UnownedModelPayload(p) == [ValidPayload(p) EXCEPT !.model = Str(<<"no-such-model">>)]

NoReturn == [provider |-> "", model |-> StrUndefined]

SyncCall(entry, payload, raises, err) ==
    [pc |-> "idle", entry |-> entry, payload |-> payload, prov |-> payload.provider,
     raises |-> raises, err |-> err, req |-> NoCanonical, credRead |-> FALSE,
     params |-> {},
     ret |-> NoReturn, result |-> NoResult, creates |-> 0, calls |-> 0]

SyncIdle == SyncCall("http", ValidPayload("openai"), FALSE, NoError)

\* the model family the message of the create factory of p names (the
\* literal in the factory, not the label of the provider table)
FactoryLabel(p) ==
    CASE p = "openai" -> "OpenAI"
      [] p = "deepseek" -> "DeepSeek"
      [] OTHER -> "Gemini"

\* a create factory that reports its missing key as a caller error
MissingKeyError_BadRequest(p) ==
    Classified("BadRequestException", "BadRequest",
               Text("missing-key", EmptyMsg, CredentialKey(p), "none",
                    FactoryLabel(p), NoDelay, FALSE))

\* the InternalServerErrorException a create factory throws without its key
MissingKeyError(p) ==
    Classified("InternalServerErrorException", "Internal",
               Text("missing-key", EmptyMsg, CredentialKey(p),
                    IF p = "deepseek" THEN "platform.deepseek.com"
                    ELSE IF p = "gemini" THEN "aistudio.google.com" ELSE "none",
                    FactoryLabel(p), NoDelay, FALSE))

\* the requestParams of generateText: only the fields that have a value,
\* the token limit under the name maxOutputTokens
SyncRequestParams(req) ==
    {<<"model", req.model>>, <<"prompt", req.prompt>>}
        \cup (IF ~Falsy(req.system) THEN {<<"system", req.system>>} ELSE {})
        \cup (IF req.temperature.kind # "undefined"
              THEN {<<"temperature", req.temperature>>} ELSE {})
        \cup (IF req.maxTokens.kind # "undefined"
              THEN {<<"maxOutputTokens", req.maxTokens>>} ELSE {})

\* a generateText that creates the SDK provider before it normalizes
ServiceStart_CreateFirst(s, e) ==
    LET n == validateAndNormalizeParams(s.payload)
    IN  IF s.payload.provider \in Providers /\ ~HasKey(e, s.payload.provider)
        THEN [s EXCEPT !.pc = "failed", !.credRead = TRUE,
                       !.result = MissingKeyError(s.payload.provider)]
        ELSE IF ~n.ok THEN [s EXCEPT !.pc = "failed", !.credRead = TRUE,
                                     !.result = n.error]
        ELSE [s EXCEPT !.pc = "calling", !.req = n.req, !.credRead = TRUE,
                       !.params = SyncRequestParams(n.req),
                       !.creates = @ + 1, !.calls = @ + 1]

\* generateText up to its await: normalize, create the SDK provider, issue
\* the upstream call
ServiceStart(s, e) ==
    LET n == validateAndNormalizeParams(s.payload)
    IN  IF ~n.ok THEN [s EXCEPT !.pc = "failed", !.result = n.error]
        ELSE IF ~HasKey(e, n.req.providerId)
        THEN [s EXCEPT !.pc = "failed", !.req = n.req, !.credRead = TRUE,
                       !.result = MissingKeyError(n.req.providerId)]
        ELSE [s EXCEPT !.pc = "calling", !.req = n.req, !.credRead = TRUE,
                       !.params = SyncRequestParams(n.req),
                       !.creates = @ + 1, !.calls = @ + 1]

\* the ValidationPipe in front of AiController.generate
PipeThenService(s, e) ==
    IF s.entry = "http" /\ DtoErrors(s.payload) # {}
    THEN [s EXCEPT !.pc = "failed", !.result = PipeRejection(DtoErrors(s.payload))]
    ELSE ServiceStart(s, e)

GenerateTextStart ==
    /\ sync.pc = "idle"
    /\ sync' = PipeThenService(sync, env)
    /\ UNCHANGED <<st, env>>

\* the awaited upstream call resolves: generateText returns its result
GenerateTextReturn ==
    /\ sync.pc = "calling"
    /\ ~sync.raises
    /\ sync' = [sync EXCEPT !.pc = "returned",
                            !.ret = [provider |-> sync.req.providerId,
                                     model |-> sync.req.model]]
    /\ UNCHANGED <<st, env>>

\* the catch block runs on the raw error the awaited upstream call raised
GenerateTextCatch ==
    /\ sync.pc = "calling"
    /\ sync.raises
    /\ sync' = [sync EXCEPT !.pc = "failed",
                            !.result = ClassifyError(sync.req.providerId, sync.err)]
    /\ UNCHANGED <<st, env>>

(***************************************************************************)
(* Streaming path.  One record per request:                                *)
(*   pc        "idle" | "awaiting" (for await pending on textStream)       *)
(*             | "done" (the async function has returned)                  *)
(*             | "rejected" (generate threw st[r].thrown before it         *)
(*             subscribed)                                                 *)
(*   prov      the request's provider                                      *)
(*   sub       the RxJS subscriber: "none" | "open" | "closed"             *)
(*   upstream  the upstream text stream: "none" | "open" | "released"      *)
(*   headersSent, destroyed, closed, writableEnded   the response's flags  *)
(*   wire      what has been written to the response, in order             *)
(*   produced  the chunks the upstream has yielded so far, in order        *)
(*   upSignal  how the upstream terminated: "none" | "end" | "error"       *)
(*   upErr     the raw error it raised                                     *)
(*   connAtSignal  whether the consumer was connected when it terminated   *)
(*   creates, calls  SDK providers created, upstream streamText calls      *)
(*   payload   the request body                                            *)
(*   req       the canonical request                                       *)
(*   thrown    the exception generate threw                                *)
(*   status    the HTTP status committed with the headers (0: none yet)    *)
(*   params    the requestParams handed to the upstream streamText         *)
(*   ends      calls of res.end                                            *)
(*   credRead  the create factory has run and read process.env             *)
(***************************************************************************)
Reqs == {"r1", "r2"}

Chunks == {"a", "b"}

\* raw errors the upstream raises mid-stream
StreamErrors ==
    { RawError(FALSE, 429, 0, Msg(<<"Rate", "limit", "reached">>, <<"2">>), "", EmptyMsg),
      RawError(FALSE, 0, 0, Msg(<<"connection", "reset">>, <<>>), "", EmptyMsg),
      NoError }

\* no request body received yet
NoPayload ==
    Payload("", StrUndefined, StrUndefined, StrUndefined, JsUndefined, JsUndefined)

ReqIdle ==
    [pc |-> "idle", prov |-> "none", sub |-> "none", upstream |-> "none",
     headersSent |-> FALSE, destroyed |-> FALSE, closed |-> FALSE,
     writableEnded |-> FALSE, wire |-> <<>>, produced |-> <<>>,
     upSignal |-> "none", upErr |-> NoError, connAtSignal |-> FALSE,
     creates |-> 0, calls |-> 0, req |-> NoCanonical, thrown |-> NoResult,
     status |-> 0, params |-> {}, ends |-> 0, credRead |-> FALSE,
     payload |-> NoPayload]

\* what is written to the response: an SSE comment line, or a data: line
\* holding the event's data string
Frame(frame, kind, content, text) ==
    [frame |-> frame, kind |-> kind, content |-> content, text |-> text]

KeepAlive == Frame("comment", "keep-alive", "", NoText)

\* { data: JSON.stringify({ content: chunk }) }
ContentEvent(c) == Frame("data", "content", c, NoText)

\* { data: '[DONE]' }
DoneEvent == Frame("data", "done", "", NoText)

\* { data: JSON.stringify({ error: ... }) }
ErrorEvent(t) == Frame("data", "error", "", t)

RawText(m) == Text("raw", m, "none", "none", "none", NoDelay, FALSE)

\* error?.message || '流式生成失败'
StreamErrorMessage(e) ==
    IF Truthy(e.message) THEN RawText(e.message)
    ELSE Text("stream-failed", EmptyMsg, "none", "none", "none", NoDelay, FALSE)

\* error instanceof Error ? error.message : String(error)
HandlerErrorMessage(e) == RawText(e.message)

\* the consumer is connected: the response is open and the subscription live
Connected(s) == ~s.destroyed /\ ~s.closed /\ s.sub = "open"

\* res.write
ResWrite(s, f) == [s EXCEPT !.wire = Append(@, f)]

\* res.end
ResEnd(s) == [s EXCEPT !.writableEnded = TRUE, !.ends = @ + 1]

\* subscription.unsubscribe: the Observable registered no teardown
Unsubscribe(s) == [s EXCEPT !.sub = "closed"]

\* !res.destroyed && !res.closed && !res.writableEnded
ResWritable(s) == ~s.destroyed /\ ~s.closed /\ ~s.writableEnded

\* the next handler of the controller's subscription
NextHandler(s, ev) ==
    IF ~ResWritable(s) THEN Unsubscribe(s) ELSE ResWrite(s, ev)

\* the error handler of the controller's subscription
ErrorHandler(s, e) ==
    IF ResWritable(s)
    THEN IF ~s.headersSent
         THEN ResEnd(ResWrite(s, Frame("json500", "error", "", HandlerErrorMessage(e))))
         ELSE ResEnd(ResWrite(s, ErrorEvent(HandlerErrorMessage(e))))
    ELSE s

\* a complete handler that leaves the response open
CompleteHandler_NoEnd(s) == s

\* the complete handler of the controller's subscription
CompleteHandler(s) == IF ResWritable(s) THEN ResEnd(s) ELSE s

\* subscriber.next: dropped once the subscriber is closed
SubscriberNext(s, ev) == IF s.sub = "open" THEN NextHandler(s, ev) ELSE s

\* subscriber.error: the handler runs, then the subscription is closed
SubscriberError(s, e) == IF s.sub = "open" THEN Unsubscribe(ErrorHandler(s, e)) ELSE s

\* subscriber.complete: the handler runs, then the subscription is closed
SubscriberComplete(s) == IF s.sub = "open" THEN Unsubscribe(CompleteHandler(s)) ELSE s

\* the SSE headers are set and flushed and the keep-alive comment written
\* (flushHeaders sends them with the default status 200)
OpenResponse(s) == [ResWrite(s, KeepAlive) EXCEPT !.headersSent = TRUE, !.status = 200]

\* the requestParams of generateTextStream: only the fields that have a
\* value, the token limit under the name maxTokens
StreamRequestParams(req) ==
    {<<"model", req.model>>, <<"prompt", req.prompt>>}
        \cup (IF ~Falsy(req.system) THEN {<<"system", req.system>>} ELSE {})
        \cup (IF req.temperature.kind # "undefined"
              THEN {<<"temperature", req.temperature>>} ELSE {})
        \cup (IF req.maxTokens.kind # "undefined"
              THEN {<<"maxTokens", req.maxTokens>>} ELSE {})

\* observable.subscribe: the executor runs up to its first await, with the
\* upstream call made
Subscribe(s) ==
    [s EXCEPT !.sub = "open", !.upstream = "open", !.pc = "awaiting",
              !.params = StreamRequestParams(s.req), !.calls = @ + 1]

\* generateTextStream before it returns the Observable: providerEntry.create()
CreateProvider(s) == [s EXCEPT !.creates = @ + 1, !.credRead = TRUE]

\* an exception leaves generate before anything is subscribed
Throw(s, error) == [s EXCEPT !.pc = "rejected", !.thrown = error]

\* generateTextStream and the controller's subscribe: normalize, create the
\* SDK provider, build the Observable, subscribe to it
ServiceStreamStart(s, payload, e) ==
    LET n == validateAndNormalizeParams(payload)
    IN  IF ~n.ok THEN Throw(s, n.error)
        ELSE IF ~HasKey(e, n.req.providerId)
        THEN Throw([s EXCEPT !.req = n.req, !.credRead = TRUE],
                   MissingKeyError(n.req.providerId))
        ELSE Subscribe(CreateProvider([s EXCEPT !.req = n.req]))

\* the status of a NestJS exception
HttpStatus(error) == IF error.exception = "BadRequestException" THEN 400 ELSE 500

\* the framework answers an exception thrown out of generate: an error
\* response with the exception's status while no headers are sent; once
\* they are sent it can only end the response (ended) or leave it open
ExceptionsLayer(s, ended) ==
    IF ~s.headersSent
    THEN ResEnd([ResWrite(s, Frame("json", "error", "", NoText))
                    EXCEPT !.headersSent = TRUE, !.status = HttpStatus(s.thrown)])
    ELSE IF ended /\ ~s.writableEnded THEN ResEnd(s)
    ELSE s

\* POST /ai/generate with stream = true: the ValidationPipe, then the
\* controller opening the response and subscribing to the service's stream
HttpStream(s, payload, e, ended) ==
    IF DtoErrors(payload) # {}
    THEN ExceptionsLayer(Throw(s, PipeRejection(DtoErrors(payload))), ended)
    ELSE IF ServiceStreamStart(OpenResponse(s), payload, e).pc = "rejected"
    THEN ExceptionsLayer(ServiceStreamStart(OpenResponse(s), payload, e), ended)
    ELSE ServiceStreamStart(OpenResponse(s), payload, e)

\* the for await loop ends (break, end of output or error): the iterator is
\* returned and the upstream stream released
LoopExit(s) == [s EXCEPT !.pc = "done", !.upstream = "released"]

\* the loop body dropping a chunk equal to the one before it
LoopBody_Dedup(s, c) ==
    IF s.sub = "closed" THEN LoopExit(s)
    ELSE IF Len(s.produced) >= 2 /\ s.produced[Len(s.produced) - 1] = c THEN s
    ELSE SubscriberNext(s, ContentEvent(c))

\* a loop body that writes the chunk to the response whatever the state of
\* the subscriber and of the response
LoopBody_WriteAlways(s, c) == ResWrite(s, ContentEvent(c))

\* body of the for await loop for one chunk
LoopBody(s, c) ==
    IF s.sub = "closed" THEN LoopExit(s) ELSE SubscriberNext(s, ContentEvent(c))

\* after the loop, with complete called before the end marker is sent
AfterLoop_CompleteFirst(s) ==
    IF s.sub # "closed" THEN SubscriberNext(SubscriberComplete(s), DoneEvent) ELSE s

\* after the loop, with the end marker written and the response ended
\* whatever the state of the subscriber and of the response
AfterLoop_WriteAlways(s) == Unsubscribe(ResEnd(ResWrite(s, DoneEvent)))

\* after the loop: the end marker, then complete
AfterLoop(s) ==
    IF s.sub # "closed" THEN SubscriberComplete(SubscriberNext(s, DoneEvent)) ELSE s

\* a catch block that starts the upstream call again after reporting
CatchBlock_Retry(s, e) ==
    IF s.sub # "closed"
    THEN [SubscriberError(SubscriberNext(s, ErrorEvent(StreamErrorMessage(e))), e)
            EXCEPT !.calls = @ + 1]
    ELSE [s EXCEPT !.calls = @ + 1]

\* a catch block that sends the end marker after reporting the error
CatchBlock_ThenDone(s, e) ==
    IF s.sub # "closed"
    THEN SubscriberError(
            SubscriberNext(SubscriberNext(s, ErrorEvent(StreamErrorMessage(e))), DoneEvent), e)
    ELSE s

\* the catch block of the executor
CatchBlock(s, e) ==
    IF s.sub # "closed"
    THEN SubscriberError(SubscriberNext(s, ErrorEvent(StreamErrorMessage(e))), e)
    ELSE s

\* the listener of the response's close event
CloseListener(s) == IF s.sub # "closed" THEN Unsubscribe(s) ELSE s

\* the listener of the response's error event
ErrorListener(s) == IF s.sub # "closed" THEN Unsubscribe(s) ELSE s

(***************************************************************************)
(* Actions of the streaming path.                                          *)
(***************************************************************************)
\* POST /ai/generate with stream = true, up to the return of the handler
StartStream(r, payload, ended) ==
    /\ st[r].pc = "idle"
    /\ st' = [st EXCEPT ![r] =
                HttpStream([st[r] EXCEPT !.prov = payload.provider, !.payload = payload],
                           payload, env, ended)]
    /\ UNCHANGED <<sync, env>>

\* the upstream yields chunk c to the loop
UpstreamChunk(r, c) ==
    /\ st[r].pc = "awaiting"
    /\ Len(st[r].produced) < MaxChunks
    /\ st' = [st EXCEPT ![r] = LoopBody([st[r] EXCEPT !.produced = Append(@, c)], c)]
    /\ UNCHANGED <<sync, env>>

\* the upstream signals the end of its output
UpstreamEnd(r) ==
    /\ st[r].pc = "awaiting"
    /\ st' = [st EXCEPT ![r] =
                AfterLoop(LoopExit([st[r] EXCEPT !.upSignal = "end",
                                                 !.connAtSignal = Connected(st[r])]))]
    /\ UNCHANGED <<sync, env>>

\* an upstream error handled on stream state shared by all requests: the
\* failure of r also closes the subscriptions of the other requests
UpstreamError_Shared(r, e) ==
    /\ st[r].pc = "awaiting"
    /\ st' = [q \in Reqs |->
                IF q = r
                THEN CatchBlock(LoopExit([st[r] EXCEPT !.upSignal = "error", !.upErr = e,
                                                       !.connAtSignal = Connected(st[r])]), e)
                ELSE IF st[q].sub = "open" THEN Unsubscribe(st[q]) ELSE st[q]]
    /\ UNCHANGED <<sync, env>>

\* the upstream raises e
UpstreamError(r, e) ==
    /\ st[r].pc = "awaiting"
    /\ st' = [st EXCEPT ![r] =
                CatchBlock(LoopExit([st[r] EXCEPT !.upSignal = "error", !.upErr = e,
                                                  !.connAtSignal = Connected(st[r])]), e)]
    /\ UNCHANGED <<sync, env>>

\* the client goes away: the response is destroyed and closed and emits
\* close in the same synchronous step, so the close listener has run before
\* any other callback
ClientDisconnect(r) ==
    /\ st[r].headersSent
    /\ ~st[r].destroyed
    /\ ~st[r].closed
    /\ st' = [st EXCEPT ![r] =
                IF st[r].pc = "rejected"
                THEN [st[r] EXCEPT !.destroyed = TRUE, !.closed = TRUE]
                ELSE CloseListener([st[r] EXCEPT !.destroyed = TRUE, !.closed = TRUE])]
    /\ UNCHANGED <<sync, env>>

\* the response emits close after res.end
ResClose(r) ==
    /\ st[r].writableEnded
    /\ ~st[r].closed
    /\ st' = [st EXCEPT ![r] =
                IF st[r].pc = "rejected"
                THEN [st[r] EXCEPT !.closed = TRUE, !.destroyed = TRUE]
                ELSE CloseListener([st[r] EXCEPT !.closed = TRUE, !.destroyed = TRUE])]
    /\ UNCHANGED <<sync, env>>

\* the response emits error: the listener runs, the response itself is
\* not destroyed by the event
ResError(r) ==
    /\ st[r].headersSent
    /\ ~st[r].destroyed
    /\ ~st[r].closed
    /\ st[r].pc # "rejected"
    /\ st' = [st EXCEPT ![r] = ErrorListener(st[r])]
    /\ UNCHANGED <<sync, env>>

\* the deployment sets credential key k in the process environment
ConfigureKey(k) ==
    /\ k \notin env
    /\ env' = env \cup {k}
    /\ UNCHANGED <<st, sync>>

\* the deployment removes credential key k from the process environment
RemoveKey(k) ==
    /\ k \in env
    /\ env' = env \ {k}
    /\ UNCHANGED <<st, sync>>

(***************************************************************************)
(* Specifications.                                                         *)
(***************************************************************************)
Init ==
    /\ st = [r \in Reqs |-> ReqIdle]
    /\ sync = SyncIdle
    /\ env = CredentialKeys

\* request bodies of the streaming path: valid ones, one the ValidationPipe
\* rejects, one that only the normalizer rejects
StreamPayloads ==
    {ValidPayload(p) : p \in Providers}
        \cup {LimitedPayload("openai"), UnownedModelPayload("deepseek"),
              [ValidPayload("gemini") EXCEPT !.prompt = Str(<<>>)]}

\* a step of one of the requests of R, with bodies P, chunks C, errors E
StreamStep(R, P, C, E) ==
    \E r \in R :
        \/ \E p \in P, ended \in BOOLEAN : StartStream(r, p, ended)
        \/ \E c \in C : UpstreamChunk(r, c)
        \/ UpstreamEnd(r)
        \/ \E e \in E : UpstreamError(r, e)
        \/ ClientDisconnect(r)
        \/ ResClose(r)
        \/ ResError(r)

\* a step of one of the requests of R
StreamNext(R) == StreamStep(R, StreamPayloads, Chunks, StreamErrors)

Next == StreamNext({"r1"})

\* the streaming path: one request in flight
Spec == Init /\ [][Next]_vars

\* the streaming path, with the event loop delivering a pending close event
FairSpec == Spec /\ \A r \in Reqs : WF_vars(ResClose(r))

\* generate calls with a valid request: every provider and raw error, the
\* upstream call resolving, and the provider's key missing
SyncInit ==
    /\ st = [r \in Reqs |-> ReqIdle]
    /\ \/ /\ env = CredentialKeys
          /\ \E p \in Providers, e \in RawErrors :
                sync = SyncCall("http", ValidPayload(p), TRUE, e)
       \/ /\ env \in {CredentialKeys, {}}
          /\ \E p \in Providers :
                sync = SyncCall("http", ValidPayload(p), FALSE, NoError)

SyncNext ==
    \/ GenerateTextStart
    \/ GenerateTextReturn
    \/ GenerateTextCatch

\* the synchronous path
SyncSpec == SyncInit /\ [][SyncNext]_vars

\* generate calls served next to a streaming request: a valid request whose
\* upstream call resolves or raises, a missing key, a request the normalizer
\* rejects
CallInit ==
    /\ st = [r \in Reqs |-> ReqIdle]
    /\ env \in {CredentialKeys, {CredentialKey("openai")}, {}}
    /\ \/ \E e \in StreamErrors :
             sync = SyncCall("http", ValidPayload("openai"), TRUE, e)
       \/ sync = SyncCall("http", ValidPayload("gemini"), FALSE, NoError)
       \/ sync = SyncCall("http", LimitedPayload("openai"), FALSE, NoError)
       \/ sync = SyncCall("http", UnownedModelPayload("deepseek"), FALSE, NoError)

CallNext ==
    \/ StreamNext({"r1"})
    \/ SyncNext

\* one streaming request and one synchronous call in flight together
CallSpec == CallInit /\ [][CallNext]_vars

\* the error of a dropped upstream connection
ConnectionReset == RawError(FALSE, 0, 0, Msg(<<"connection", "reset">>, <<>>), "", EmptyMsg)

\* two streaming requests in flight together, interleaved step by step
TwoNext == StreamStep(Reqs, {ValidPayload("openai")}, Chunks, {ConnectionReset})

TwoSpec == Init /\ [][TwoNext]_vars

\* valid requests of every provider, one synchronous and two streaming,
\* served while the configured credential keys change
CredInit ==
    /\ st = [r \in Reqs |-> ReqIdle]
    /\ env \in SUBSET CredentialKeys
    /\ \E p \in Providers : sync = SyncCall("http", ValidPayload(p), FALSE, NoError)

CredNext ==
    \/ \E k \in CredentialKeys : ConfigureKey(k)
    \/ \E k \in CredentialKeys : RemoveKey(k)
    \/ \E r \in Reqs, p \in Providers, ended \in BOOLEAN :
            StartStream(r, ValidPayload(p), ended)
    \/ GenerateTextStart
    \/ GenerateTextReturn

\* credential resolution while the environment changes
CredSpec == CredInit /\ [][CredNext]_vars

(***************************************************************************)
(* Request payloads the normalizer is checked on.                          *)
(***************************************************************************)
ProviderInputs == Providers \cup {"azure", "constructor", "valueOf"}

ModelInputs ==
    {StrUndefined, Str(<<>>), Str(<<" ">>), Str(<<"gpt-4o">>),
     Str(<<" ", "gpt-4o", " ">>), Str(<<"deepseek-chat">>),
     Str(<<"gemini-2.5-pro">>), Str(<<"gemini-3-pro">>)}

PromptInputs == {StrUndefined, Str(<<>>), Str(<<" ">>), Str(<<"hi">>), Str(<<" ", "hi", " ">>)}

SystemInputs == {StrUndefined, Str(<<>>), Str(<<" ">>), Str(<<"sys", " ">>)}

TemperatureInputs ==
    {JsUndefined, JsNaN, JsInt(0), JsNum(FALSE, 0, <<"7">>), JsInt(2),
     JsNum(FALSE, 2, <<"5">>), JsNum(TRUE, 0, <<"5">>), JsNum(FALSE, 0, <<"1", "2", "5">>)}

MaxTokensInputs ==
    {JsUndefined, JsNaN, JsInfinity(FALSE), JsInt(0), JsInt(1), JsNum(TRUE, 5, <<>>),
     JsNum(FALSE, 2, <<"7">>), JsNum(FALSE, 0, <<"5">>), JsInt(MaxTokensLimit),
     JsInt(MaxTokensLimit + 1)}

Payloads ==
    { Payload(p, m, pr, sy, t, mt) :
        p \in ProviderInputs, m \in ModelInputs, pr \in PromptInputs,
        sy \in SystemInputs, t \in TemperatureInputs, mt \in MaxTokensInputs }

Entries == {"http", "service"}

\* generate calls on every payload, with the key present and an upstream
\* call that resolves
NormInit ==
    /\ st = [r \in Reqs |-> ReqIdle]
    /\ \E entry \in Entries, payload \in Payloads :
          sync = SyncCall(entry, payload, FALSE, NoError)
    /\ env = CredentialKeys

NormNext ==
    \/ GenerateTextStart
    \/ GenerateTextReturn

\* the normalizer, behind the validation layer and called directly
NormSpec == NormInit /\ [][NormNext]_vars

(***************************************************************************)
(* Reading the response.                                                   *)
(***************************************************************************)
\* the data: frames of kind k, in order
FramesOf(w, k) == SelectSeq(w, LAMBDA f : f.frame = "data" /\ f.kind = k)

\* the content fragments delivered, in order
Contents(w) == [i \in 1..Len(FramesOf(w, "content")) |-> FramesOf(w, "content")[i].content]

IsPrefix(a, b) == Len(a) <= Len(b) /\ a = SubSeq(b, 1, Len(a))

\* the consumer has signalled cancellation: the client went away, or the
\* subscription was unsubscribed
Cancelled(s) == s.destroyed \/ s.closed \/ s.sub = "closed"

(***************************************************************************)
(* Streaming claims.                                                       *)
(***************************************************************************)
\* C1: once the consumer has signalled cancellation, nothing more is written
\* to the response: no content fragment, no error fragment, no [DONE],
\* whatever the upstream does next.
C1_NothingAfterCancel ==
    [][\A r \in Reqs : Cancelled(st[r]) => st'[r].wire = st[r].wire]_vars

\* C1 witness: the client went away after a first fragment; the upstream
\* then yielded a chunk, which was not delivered and ended the loop.
C1_Witness ==
    /\ st["r1"].destroyed /\ st["r1"].closed
    /\ st["r1"].sub = "closed"
    /\ st["r1"].pc = "done"
    /\ Len(Contents(st["r1"].wire)) >= 1
    /\ Len(Contents(st["r1"].wire)) < Len(st["r1"].produced)
    /\ FramesOf(st["r1"].wire, "done") = <<>>
    /\ FramesOf(st["r1"].wire, "error") = <<>>

\* C2: an upstream that yields k chunks and then raises while the consumer is
\* connected leaves on the response exactly the k content fragments followed
\* by exactly one error fragment, and no [DONE].
C2_OneErrorFragment ==
    \A r \in Reqs :
        (st[r].upSignal = "error" /\ st[r].connAtSignal) =>
            /\ Contents(st[r].wire) = st[r].produced
            /\ Len(FramesOf(st[r].wire, "error")) = 1
            /\ FramesOf(st[r].wire, "done") = <<>>
            /\ st[r].wire[Len(st[r].wire)].kind = "error"

\* C3: after the consumer cancels, the executor eventually stops pulling from
\* the upstream stream and releases it, also when the upstream yields nothing
\* more.
C3_CancelReleasesUpstream ==
    \A r \in Reqs :
        (st[r].upstream = "open" /\ Cancelled(st[r])) ~> (st[r].upstream = "released")

\* C4: when the upstream ends normally while the consumer is connected, the
\* response holds exactly one [DONE], it is the last thing written, and no
\* error fragment was written.
C4_OneDoneLast ==
    \A r \in Reqs :
        (st[r].upSignal = "end" /\ st[r].connAtSignal) =>
            /\ Len(FramesOf(st[r].wire, "done")) = 1
            /\ st[r].wire[Len(st[r].wire)] = DoneEvent
            /\ FramesOf(st[r].wire, "error") = <<>>
            /\ Contents(st[r].wire) = st[r].produced

\* C4 witness: a stream of two or more chunks completed normally, and the
\* response has since been closed.
C4_Witness ==
    /\ st["r1"].upSignal = "end"
    /\ st["r1"].connAtSignal
    /\ Len(st["r1"].produced) >= 2
    /\ st["r1"].closed

\* C5: the content fragments on the response are a prefix of the chunks the
\* upstream produced, in the same order; while the stream is live, and when
\* the upstream ended or raised with the consumer connected, none is missing.
C5_OrderedPrefix ==
    \A r \in Reqs :
        /\ IsPrefix(Contents(st[r].wire), st[r].produced)
        /\ (st[r].sub = "open" \/ st[r].connAtSignal) =>
                Contents(st[r].wire) = st[r].produced

\* C5 witness: three chunks, not all alike, were delivered to a connected
\* client.
C5_Witness ==
    /\ Len(Contents(st["r1"].wire)) >= 3
    /\ Contents(st["r1"].wire)[1] # Contents(st["r1"].wire)[2]
    /\ ~st["r1"].destroyed

\* C6: the error fragment of the stream carries the classifier's output for
\* the raw error: the message the synchronous path raises for the same
\* provider and raw error.
C6_StreamErrorClassified ==
    \A r \in Reqs :
        \A i \in 1..Len(st[r].wire) :
            st[r].wire[i].kind = "error" =>
                st[r].wire[i].text = ClassifyError(st[r].prov, st[r].upErr).text

(***************************************************************************)
(* Classification claims (synchronous path).                               *)
(***************************************************************************)
\* the i-th predicate of the chain, in the order of the specification
ChainPredicate(i, e) ==
    CASE i = 1 -> IsParameterError(e)
      [] i = 2 -> IsBalanceError(e)
      [] i = 3 -> IsRateLimitError(e)
      [] i = 4 -> IsForbiddenError(e)
      [] i = 5 -> IsUnauthorizedError(e)
      [] OTHER -> TRUE

\* the categories the i-th predicate stands for
ChainCategories(i) ==
    CASE i = 1 -> {"BadRequest"}
      [] i = 2 -> {"InsufficientBalance"}
      [] i = 3 -> {"RateLimited"}
      [] i = 4 -> {"Forbidden-Leaked", "Forbidden-Other"}
      [] i = 5 -> {"Unauthorized"}
      [] OTHER -> {"Internal"}

\* the lowest-numbered predicate e satisfies
FirstMatch(e) ==
    CHOOSE i \in 1..6 : ChainPredicate(i, e) /\ \A j \in 1..(i - 1) : ~ChainPredicate(j, e)

\* number of the first five predicates e satisfies
MatchCount(e) == Cardinality({i \in 1..5 : ChainPredicate(i, e)})

\* C7: the category thrown is the one of the lowest-numbered predicate of the
\* chain (parameter, balance, rate limit, forbidden, unauthorized, other)
\* that the raw error satisfies.
C7_FirstMatchWins ==
    sync.pc = "failed" =>
        sync.result.category \in ChainCategories(FirstMatch(sync.err))

\* C7 witness: an error satisfying the rate-limit, forbidden and unauthorized
\* predicates at once was classified RateLimited.
C7_Witness ==
    /\ sync.pc = "failed"
    /\ MatchCount(sync.err) >= 3
    /\ FirstMatch(sync.err) = 3
    /\ IsUnauthorizedError(sync.err)
    /\ sync.result.category = "RateLimited"

\* e reaches the forbidden check and satisfies it
ReachesForbidden(e) ==
    /\ ~IsParameterError(e)
    /\ ~IsBalanceError(e)
    /\ ~IsRateLimitError(e)
    /\ IsForbiddenError(e)

\* the raw error carries leak phrasing, in its message or in its payload's
LeakPhrasing(e) == Includes(e.message, <<"leaked">>) \/ Includes(e.dataMessage, <<"leaked">>)

\* the message reads "invalid api key", in either case
InvalidApiKeyPhrasing(e) ==
    \/ Includes(e.message, <<"Invalid", "API", "key">>)
    \/ Includes(e.message, <<"invalid", "api", "key">>)

\* C8: a raw error with HTTP status 403 whose message reads "invalid api key"
\* (and that no earlier check of the chain catches) is classified
\* Forbidden-Leaked when it also carries leak phrasing and Forbidden-Other
\* otherwise, never Unauthorized.
C8_Forbidden403BeforeUnauthorized ==
    ( /\ sync.pc = "failed"
      /\ sync.err.status = 403 \/ sync.err.statusCode = 403
      /\ InvalidApiKeyPhrasing(sync.err)
      /\ ReachesForbidden(sync.err) ) =>
        sync.result.category =
            IF LeakPhrasing(sync.err) THEN "Forbidden-Leaked" ELSE "Forbidden-Other"

\* C9: an error that reaches the forbidden check is Forbidden-Leaked exactly
\* when it carries leak phrasing and Forbidden-Other otherwise, also when it
\* has both a top-level message and a payload message.
C9_LeakedIffLeakPhrasing ==
    (sync.pc = "failed" /\ ReachesForbidden(sync.err)) =>
        /\ sync.result.category \in {"Forbidden-Leaked", "Forbidden-Other"}
        /\ sync.result.category = "Forbidden-Leaked" <=> LeakPhrasing(sync.err)

\* C10: a RateLimited error whose message holds "Please retry in Ns" with a
\* number N >= 0 shows the delay N rounded up to whole seconds; one holding
\* no such phrase shows no delay.
C10_RetryDelayCeil ==
    (sync.pc = "failed" /\ sync.result.category = "RateLimited") =>
        LET cap == ErrorMessage(sync.err).retry
            n == ParseFloat(cap)
        IN  /\ (cap # <<>> /\ n.kind = "num") =>
                  sync.result.text.delay = [shown |-> TRUE, secs |-> MathCeil(n).int]
            /\ (sync.err.message.retry = <<>> /\ sync.err.dataMessage.retry = <<>>) =>
                  sync.result.text.delay = NoDelay

(***************************************************************************)
(* Claims on the remediation text of classified errors.                    *)
(***************************************************************************)
CredentialCategories == {"Unauthorized", "Forbidden-Leaked", "Forbidden-Other"}

\* C11: every Unauthorized, Forbidden-Leaked and Forbidden-Other error names
\* the credential key of the request's own provider, which is the key the
\* create factory of that provider reads from the environment.
C11_NamesOwnCredentialKey ==
    (sync.pc = "failed" /\ sync.result.category \in CredentialCategories) =>
        sync.result.text.envVar = CredentialKey(sync.prov)

\* C11 witness: a gemini call failed Unauthorized and the message names
\* GOOGLE_GENERATIVE_AI_API_KEY.
C11_Witness ==
    /\ sync.pc = "failed"
    /\ sync.prov = "gemini"
    /\ sync.result.category = "Unauthorized"
    /\ sync.result.text.envVar = "GOOGLE_GENERATIVE_AI_API_KEY"

\* C12: the remediation text of an InsufficientBalance error is the
\* provider's own: an openai or gemini request is never sent to the DeepSeek
\* platform site.
C12_BalanceTextOwnProvider ==
    (sync.pc = "failed" /\ sync.result.category = "InsufficientBalance"
        /\ sync.prov # "deepseek") =>
            sync.result.text.site # "platform.deepseek.com"

(***************************************************************************)
(* Claims on the synchronous executor.                                     *)
(***************************************************************************)
ErrorCategories ==
    {"BadRequest", "InsufficientBalance", "RateLimited", "Forbidden-Leaked",
     "Forbidden-Other", "Unauthorized", "Internal"}

\* C13: when the upstream call of the synchronous path raises, generateText
\* ends by throwing one classified error (a NestJS exception of one of the
\* seven categories): it returns no result and the raw error never escapes.
C13_RaisedErrorClassified ==
    (sync.raises /\ sync.pc \notin {"idle", "calling"}) =>
        /\ sync.pc = "failed"
        /\ sync.ret = NoReturn
        /\ sync.result.category \in ErrorCategories
        /\ sync.result.exception \in
              {"BadRequestException", "InternalServerErrorException"}

\* C13 witness: the upstream raised an error no check of the chain matches,
\* and the call failed with the Internal error of the fallback.
C13_Witness ==
    /\ sync.pc = "failed"
    /\ sync.raises
    /\ sync.calls = 1
    /\ sync.result.category = "Internal"
    /\ sync.result.exception = "InternalServerErrorException"

\* C14: for every request, synchronous or streaming, and whatever its
\* outcome, at most one SDK provider is created and the upstream model is
\* called at most once.
C14_AtMostOneUpstreamCall ==
    /\ sync.creates <= 1
    /\ sync.calls <= 1
    /\ \A r \in Reqs : st[r].creates <= 1 /\ st[r].calls <= 1

\* C14 witness: a synchronous call and a stream have both failed on an
\* upstream error, each after exactly one upstream call.
C14_Witness ==
    /\ sync.pc = "failed"
    /\ sync.raises
    /\ sync.creates = 1
    /\ sync.calls = 1
    /\ st["r1"].upSignal = "error"
    /\ st["r1"].pc = "done"
    /\ st["r1"].creates = 1
    /\ st["r1"].calls = 1

(***************************************************************************)
(* Claims on the parameter normalizer.                                     *)
(***************************************************************************)
\* the call has run validateAndNormalizeParams on its payload
ReachedNormalizer ==
    sync.pc # "idle" /\ (sync.entry = "service" \/ DtoErrors(sync.payload) = {})

\* the request passed every validation: the call went on to the upstream
RequestAccepted == sync.pc \in {"calling", "returned"}

RequestRejected == sync.pc = "failed" /\ sync.result.category = "BadRequest"

\* the six rules of the normalizer, as the specification states them
RuleHolds(i, payload) ==
    CASE i = 1 -> payload.provider \in Providers
      [] i = 2 -> ~Blank(payload.model)
      [] i = 3 -> validateModel(payload.provider, payload.model)
      [] i = 4 -> ~(Blank(payload.prompt) /\ Blank(payload.system))
      [] i = 5 -> payload.maxTokens.kind = "undefined"
                    \/ (payload.maxTokens.kind = "num"
                         /\ FloorAbs(payload.maxTokens) >= 1
                         /\ FloorAbs(payload.maxTokens) <= MaxTokensLimit)
      [] OTHER -> payload.temperature.kind \in {"undefined", "num"}

ViolatedRules(payload) == {i \in 1..6 : ~RuleHolds(i, payload)}

FirstViolated(payload) ==
    CHOOSE i \in ViolatedRules(payload) : \A j \in ViolatedRules(payload) : i <= j

\* the rule a BadRequest of the normalizer reports
RuleOf(tmpl) ==
    CASE tmpl = "unsupported-provider" -> 1
      [] tmpl = "model-empty" -> 2
      [] tmpl = "model-not-owned" -> 3
      [] tmpl = "prompt-system-empty" -> 4
      [] tmpl \in {"maxTokens-not-a-number", "maxTokens-below-1",
                   "maxTokens-above-limit"} -> 5
      [] tmpl = "temperature-not-a-number" -> 6
      [] OTHER -> 0

\* C15: the normalizer checks provider, model non-empty, model of the
\* provider, prompt/system, maxTokens, temperature in that order: a request
\* violating one or more rules is rejected with the BadRequest of the first
\* rule it violates.
C15_FirstViolatedRuleReported ==
    (ReachedNormalizer /\ ViolatedRules(sync.payload) # {}) =>
        /\ RequestRejected
        /\ RuleOf(sync.result.text.tmpl) = FirstViolated(sync.payload)

\* C16 as stated: whenever the model is not one of the provider's models,
\* the normalizer fails with a BadRequest that lists the provider's models.
C16_Original_EnumeratesWheneverNotOwned ==
    (ReachedNormalizer /\ sync.payload.provider \in Providers
        /\ ~validateModel(sync.payload.provider, sync.payload.model)) =>
            /\ RequestRejected
            /\ sync.result.text.tmpl = "model-not-owned"
            /\ sync.result.text.models = getModelsByProvider(sync.payload.provider)

\* C16 amended: whenever the provider is known and the model is non-empty
\* after trimming but not one of the provider's models, the normalizer fails
\* with a BadRequest that lists exactly the provider's models.
C16_EnumeratesProviderModels ==
    (ReachedNormalizer /\ sync.payload.provider \in Providers
        /\ ~Blank(sync.payload.model)
        /\ ~validateModel(sync.payload.provider, sync.payload.model)) =>
            /\ RequestRejected
            /\ sync.result.text.tmpl = "model-not-owned"
            /\ sync.result.text.provider = sync.payload.provider
            /\ sync.result.text.models = getModelsByProvider(sync.payload.provider)

\* C16 witness: a deepseek request naming gpt-4o was rejected with the list
\* of the DeepSeek models.
C16_Witness ==
    /\ sync.pc = "failed"
    /\ sync.payload.provider = "deepseek"
    /\ sync.payload.model = Str(<<"gpt-4o">>)
    /\ sync.result.text.tmpl = "model-not-owned"
    /\ sync.result.text.models = DeepSeekModel

\* the request passes every validation of its entry point
Admits(entry, payload) ==
    /\ entry = "http" => DtoErrors(payload) = {}
    /\ validateAndNormalizeParams(payload).ok

\* C17: for a finite maxTokens v in an otherwise valid request, the request
\* is rejected with BadRequest when floor(|v|) is outside [1, 1000000], and
\* otherwise accepted with canonical maxTokens floor(|v|).
C17_MaxTokensFloorAbs ==
    (sync.pc # "idle" /\ sync.payload.maxTokens.kind = "num"
        /\ Admits(sync.entry, [sync.payload EXCEPT !.maxTokens = JsUndefined])) =>
            IF FloorAbs(sync.payload.maxTokens) >= 1
                /\ FloorAbs(sync.payload.maxTokens) <= MaxTokensLimit
            THEN /\ RequestAccepted
                 /\ sync.req.maxTokens = JsInt(FloorAbs(sync.payload.maxTokens))
            ELSE RequestRejected

\* the value of [0,2] nearest to a finite number
NearestInRange(v) ==
    IF Negative(v) THEN JsInt(0)
    ELSE IF v.int > 2 \/ (v.int = 2 /\ HasFraction(v)) THEN JsInt(2)
    ELSE v

\* C18: a finite temperature is never rejected: the request is accepted and
\* the canonical temperature is the input when it lies in [0,2], 0 when it
\* is below, 2 when it is above.
C18_TemperatureClamped ==
    (sync.pc # "idle" /\ sync.payload.temperature.kind = "num"
        /\ Admits(sync.entry, [sync.payload EXCEPT !.temperature = JsUndefined])) =>
            /\ RequestAccepted
            /\ sync.req.temperature = NearestInRange(sync.payload.temperature)

\* a canonical request, submitted as a payload
AsPayload(req) ==
    Payload(req.providerId, req.model, req.prompt, req.system, req.temperature,
            req.maxTokens)

\* C19: normalizing the canonical request of an accepted request succeeds
\* and returns that same canonical request.
C19_NormalizeIdempotent ==
    RequestAccepted =>
        validateAndNormalizeParams(AsPayload(sync.req)) = Accepted(sync.req)

\* C19 witness: an accepted request whose canonical form differs from the
\* payload in prompt, system, temperature and maxTokens.
C19_Witness ==
    /\ RequestAccepted
    /\ sync.payload.prompt = Str(<<" ", "hi", " ">>)
    /\ sync.req.prompt = Str(<<"hi">>)
    /\ sync.payload.system = Str(<<"sys", " ">>)
    /\ sync.payload.temperature = JsNum(FALSE, 2, <<"5">>)
    /\ sync.req.temperature = JsInt(2)
    /\ sync.payload.maxTokens = JsNum(TRUE, 5, <<>>)
    /\ sync.req.maxTokens = JsInt(5)

\* C20: an otherwise valid request is rejected exactly when prompt and
\* system are both empty or whitespace-only.
C20_RejectedIffBothBlank ==
    (sync.pc # "idle"
        /\ Admits(sync.entry, [sync.payload EXCEPT !.prompt = Str(<<"hi">>)])) =>
            (RequestRejected <=>
                (Blank(sync.payload.prompt) /\ Blank(sync.payload.system)))

(***************************************************************************)
(* Claims on credential resolution.                                        *)
(***************************************************************************)
\* the request passes the validation layer and the normalizer
PassesNormalization(payload) ==
    DtoErrors(payload) = {} /\ validateAndNormalizeParams(payload).ok

\* an error is the Internal error of a missing key of provider p, as the
\* create factory throws it and not as the classifier's fallback builds it
IsMissingKeyErrorOf(error, p) ==
    /\ error.exception = "InternalServerErrorException"
    /\ error.category = "Internal"
    /\ error.text.tmpl = "missing-key"
    /\ error.text.envVar = CredentialKey(p)

\* C21: a request that passes normalization while its provider's key is
\* absent fails, on the synchronous and on the streaming path, with the
\* Internal error that names the provider's key: it is not a BadRequest, it
\* does not come from the error classifier, and no upstream call is made.
C21_MissingKeyIsInternal ==
    /\ (sync.pc # "idle" /\ PassesNormalization(sync.payload)
            /\ CredentialKey(sync.payload.provider) \notin env) =>
          /\ sync.pc = "failed"
          /\ IsMissingKeyErrorOf(sync.result, sync.payload.provider)
          /\ sync.calls = 0
    /\ \A r \in Reqs :
          (st[r].pc # "idle" /\ PassesNormalization(st[r].payload)
              /\ CredentialKey(st[r].prov) \notin env) =>
            /\ st[r].pc = "rejected"
            /\ IsMissingKeyErrorOf(st[r].thrown, st[r].prov)
            /\ st[r].calls = 0
            /\ st[r].upstream = "none"

\* C21 witness: with no key configured, a gemini call and a deepseek stream
\* have both failed with the Internal error naming their own key, and the
\* stream made no upstream call.
C21_Witness ==
    /\ env = {}
    /\ sync.pc = "failed"
    /\ sync.payload.provider = "gemini"
    /\ sync.result.text.envVar = "GOOGLE_GENERATIVE_AI_API_KEY"
    /\ sync.result.category = "Internal"
    /\ st["r1"].pc = "rejected"
    /\ st["r1"].prov = "deepseek"
    /\ st["r1"].thrown.text.envVar = "DEEPSEEK_API_KEY"
    /\ st["r1"].calls = 0

\* the request of r is answered by the missing-key error of its provider
MissingKeyFailure(s) == s.pc = "rejected" /\ IsMissingKeyErrorOf(s.thrown, s.prov)

\* the step starts the request of r
Starts(r) == st[r].pc = "idle" /\ st'[r].pc # "idle"

\* C22: a missing credential is never cached and credentials are resolved
\* per provider: whatever requests failed or succeeded before and whatever
\* keys of other providers are configured, a valid request that starts is
\* resolved exactly when its own provider's key is configured at that
\* moment, and fails with that provider's missing-key error exactly when it
\* is not
C22_ResolutionFollowsOwnKey ==
    [][/\ \A r \in Reqs :
            Starts(r) /\ PassesNormalization(st'[r].payload) =>
                IF CredentialKey(st'[r].prov) \in env
                THEN st'[r].pc = "awaiting"
                ELSE MissingKeyFailure(st'[r])
        /\ (sync.pc = "idle" /\ sync'.pc # "idle" /\ PassesNormalization(sync.payload)) =>
                IF CredentialKey(sync.payload.provider) \in env
                THEN sync'.pc = "calling"
                ELSE /\ sync'.pc = "failed"
                     /\ IsMissingKeyErrorOf(sync'.result, sync.payload.provider)]_vars

\* a synchronous call and a streaming request of openai failed for the
\* missing key, and the next openai request, made with the key configured
\* and the keys of the other providers still absent, is resolved
C22_Witness ==
    /\ env = {CredentialKey("openai")}
    /\ sync.pc = "failed" /\ IsMissingKeyErrorOf(sync.result, "openai")
    /\ st["r1"].prov = "openai" /\ MissingKeyFailure(st["r1"])
    /\ st["r2"].prov = "openai" /\ st["r2"].pc = "awaiting" /\ st["r2"].creates = 1

(***************************************************************************)
(* Claims on concurrent streaming requests.                                *)
(***************************************************************************)
\* the stream of s was cancelled by its client before the upstream ended
CancelledMidStream(s) ==
    s.destroyed /\ s.sub = "closed" /\ s.upSignal = "none" /\ s.pc = "done"

\* C23: with two streaming requests interleaved, a step of one request
\* (a fragment, its cancellation, its failure or its completion) leaves the
\* other request's record as it was: its delivered fragments, its
\* subscription, its response and its terminal state
C23_RequestsIsolated ==
    [][\A r \in Reqs :
          st'[r] # st[r] => \A q \in Reqs \ {r} : st'[q] = st[q]]_vars

\* r1 was cancelled after one fragment and then saw its loop exit, r2 failed
\* after r1's cancellation having delivered two fragments of its own
C23_Witness ==
    /\ CancelledMidStream(st["r1"]) /\ Contents(st["r1"].wire) = <<"a">>
    /\ st["r2"].upSignal = "error" /\ st["r2"].connAtSignal
    /\ Contents(st["r2"].wire) = <<"b", "a">>
    /\ Len(FramesOf(st["r2"].wire, "error")) >= 1

(***************************************************************************)
(* Claims on the documented models.                                        *)
(***************************************************************************)
\* C24: a request naming a model the documentation lists for its provider
\* (gemini with gemini-3-pro among them) passes the model-membership check:
\* it is never rejected as a model the provider does not own
C24_DocumentedModelsAccepted ==
    (ReachedNormalizer /\ sync.payload.provider \in Providers
        /\ \E m \in DocumentedModels(sync.payload.provider) :
                sync.payload.model = Str(<<m>>)) =>
            ~(RequestRejected /\ sync.result.text.tmpl = "model-not-owned")

(***************************************************************************)
(* Claims on the start of a streaming request.                             *)
(***************************************************************************)
\* the request of s failed validation, in the ValidationPipe or in the
\* normalizer
FailedValidation(s) == s.pc = "rejected" /\ s.thrown.category = "BadRequest"

\* C25: a streaming request whose parameters fail validation is answered
\* with status 400, and neither the success status nor the keep-alive
\* comment is on the response
C25_InvalidStreamGets400 ==
    \A r \in Reqs :
        FailedValidation(st[r]) =>
            /\ st[r].status = 400
            /\ \A i \in 1..Len(st[r].wire) : st[r].wire[i] # KeepAlive

(***************************************************************************)
(* Claims on the terminal states of a stream.                              *)
(***************************************************************************)
\* the terminal state of the stream of s: Completed when the upstream ended
\* and Failed when it raised with the consumer connected, Cancelled when
\* the subscriber was closed any other way
TerminalState(s) ==
    CASE s.sub # "closed" -> "none"
      [] s.sub = "closed" /\ s.upSignal = "end" /\ s.connAtSignal -> "Completed"
      [] s.sub = "closed" /\ s.upSignal = "error" /\ s.connAtSignal -> "Failed"
      [] OTHER -> "Cancelled"

\* what the terminal state t allows on the wire w: the end marker only when
\* Completed, an error fragment only when Failed
TerminalOutput(t, w) ==
    /\ FramesOf(w, "done") # <<>> => t = "Completed"
    /\ FramesOf(w, "error") # <<>> => t = "Failed"
    /\ t = "Completed" => Len(FramesOf(w, "done")) = 1 /\ w[Len(w)] = DoneEvent
    /\ t = "Failed" => w[Len(w)].kind = "error"

\* C26: a stream reaches at most one terminal state and it is absorbing:
\* the response carries the output of that one state only (never both the
\* end marker and an error), and once a stream is Completed, Cancelled or
\* Failed every later event (a cancellation, an upstream chunk, end or
\* error) leaves its terminal state and its output as they are
C26_TerminalAbsorbing ==
    /\ [](\A r \in Reqs :
            TerminalState(st[r]) # "none" =>
                TerminalOutput(TerminalState(st[r]), st[r].wire))
    /\ [][\A r \in Reqs :
            TerminalState(st[r]) # "none" =>
                /\ TerminalState(st'[r]) = TerminalState(st[r])
                /\ st'[r].wire = st[r].wire]_vars

\* the stream was cancelled after one fragment and the upstream raised
\* afterwards: no error fragment was emitted and the stream stays Cancelled
C26_Witness ==
    /\ TerminalState(st["r1"]) = "Cancelled"
    /\ st["r1"].upSignal = "error"
    /\ Len(st["r1"].produced) = 1
    /\ Contents(st["r1"].wire) = st["r1"].produced
    /\ FramesOf(st["r1"].wire, "error") = <<>>

(***************************************************************************)
(* Claims on the controller's writes.                                      *)
(***************************************************************************)
\* the step delivers a fragment of the upstream to the stream of r
FragmentArrives(r) == Len(st'[r].produced) > Len(st[r].produced)

\* C27: whatever the interleaving of fragments, stream error, completion
\* and client close/error events, the controller writes to a response only
\* while it is neither destroyed nor closed nor ended; a fragment arriving
\* after the client has gone is dropped with the subscription cancelled,
\* the response is not ended again and no error is raised or reported
C27_NoWriteToGoneResponse ==
    [][\A r \in Reqs :
          /\ (st[r].pc # "idle" /\ st'[r].wire # st[r].wire) => ResWritable(st[r])
          /\ (FragmentArrives(r) /\ ~ResWritable(st[r])) =>
                /\ st'[r].wire = st[r].wire
                /\ st'[r].sub = "closed"
                /\ st'[r].thrown = NoResult
                /\ st'[r].ends = st[r].ends]_vars

\* the client went away after two fragments; the third fragment was
\* dropped, the subscription being cancelled, nothing ended and nothing raised
C27_Witness ==
    /\ st["r1"].destroyed /\ st["r1"].closed /\ ~st["r1"].writableEnded
    /\ st["r1"].sub = "closed"
    /\ st["r1"].upSignal = "none"
    /\ Len(st["r1"].produced) = 3
    /\ Contents(st["r1"].wire) = SubSeq(st["r1"].produced, 1, 2)
    /\ st["r1"].ends = 0
    /\ st["r1"].thrown = NoResult

(***************************************************************************)
(* Claims on the parameters handed to the upstream.                        *)
(***************************************************************************)
\* C28: when the synchronous and the streaming executor have called the
\* upstream for the same canonical request, they handed it the same
\* parameters under the same names: prompt, system, temperature and the
\* token limit
C28_SameUpstreamParams ==
    \A r \in Reqs :
        (sync.calls >= 1 /\ st[r].calls >= 1 /\ sync.req = st[r].req) =>
            sync.params = st[r].params

(***************************************************************************)
(* Claims on the order of normalization and credential resolution.         *)
(***************************************************************************)
\* the normalizer rejects the payload
FailsNormalization(payload) == ~validateAndNormalizeParams(payload).ok

\* C29: a request that fails normalization, synchronous or streaming, is
\* answered with a BadRequest whether or not its provider's key is
\* configured, and for it no credential is read, no SDK provider is created
\* and no upstream call is made
C29_NormalizationFirst ==
    /\ (sync.pc # "idle" /\ FailsNormalization(sync.payload)) =>
            /\ sync.pc = "failed"
            /\ sync.result.category = "BadRequest"
            /\ ~sync.credRead
            /\ sync.creates = 0
            /\ sync.calls = 0
    /\ \A r \in Reqs :
            (st[r].pc # "idle" /\ FailsNormalization(st[r].payload)) =>
                /\ st[r].pc = "rejected"
                /\ st[r].thrown.category = "BadRequest"
                /\ ~st[r].credRead
                /\ st[r].creates = 0
                /\ st[r].calls = 0
                /\ st[r].upstream = "none"

\* with no key configured, a synchronous and a streaming deepseek request
\* naming a model deepseek does not own were both rejected by the model rule
C29_Witness ==
    /\ env = {}
    /\ sync.pc = "failed" /\ sync.payload = UnownedModelPayload("deepseek")
    /\ sync.result.text.tmpl = "model-not-owned" /\ ~sync.credRead
    /\ st["r1"].pc = "rejected" /\ st["r1"].payload = UnownedModelPayload("deepseek")
    /\ st["r1"].thrown.text.tmpl = "model-not-owned" /\ ~st["r1"].credRead

(***************************************************************************)
(* Claims on the end of the response.                                      *)
(***************************************************************************)
\* C30: once the upstream has ended or raised with the client still
\* connected, the response has been ended, by exactly one call of res.end;
\* a stream that reached Completed or Failed never leaves its response open
\* for writing
C30_ResponseEndedOnce ==
    \A r \in Reqs :
        /\ (st[r].upSignal \in {"end", "error"} /\ st[r].connAtSignal) =>
                /\ st[r].writableEnded
                /\ st[r].ends = 1
        /\ TerminalState(st[r]) \in {"Completed", "Failed"} => ~ResWritable(st[r])

\* the upstream raised after a fragment with the client connected: the
\* response was ended once and has since emitted its close event
C30_Witness ==
    /\ st["r1"].upSignal = "error" /\ st["r1"].connAtSignal
    /\ Len(st["r1"].produced) >= 1
    /\ st["r1"].writableEnded /\ st["r1"].ends = 1
    /\ st["r1"].closed
====
